---- MODULE Spec2Model ----
(***************************************************************************)
(* Model of SMStudio-Run-On-Start/lambda/main.py: one invocation of        *)
(* lambda_handler, from the event lookup through get_domain_id and the     *)
(* steps of run_commands (presigned URL, login, readiness wait, terminal   *)
(* creation, websocket command loop, close).                               *)
(***************************************************************************)
EXTENDS Integers, Sequences, FiniteSets, TLC

(* ---------------- bounds of the model ---------------- *)
MaxDomains == 2
MaxPolls == 3
MaxNoise == 1
MaxPieces == 5
\* messages of output a command writes before it finishes
MaxOutput == 1

(* ---------------- python values ---------------- *)
None == "None"
Absent == "<absent>"

(* exceptions, by the name of the python type (and the raise site) *)
NoDomainsError == "ValueError: No SageMaker Studio domains in this region!"
MultipleDomainsError == "ValueError: Cannot automatically select SageMaker Studio domain"
MissingUserError == "ValueError: Input event must include top-level property 'UserProfileName'"
UnusableStatusError == "ValueError: JupyterServer app in unusable status"
IndexError == "IndexError"
KeyError == "KeyError"
TypeError == "TypeError"
JSONDecodeError == "JSONDecodeError"
ClientError == "ClientError"
ConnectionError == "ConnectionError"
WebSocketError == "WebSocketException"

(* ---------------- static configuration ---------------- *)
COMMAND_SCRIPT ==
  << "git clone https://github.com/aws-samples/sagemaker-studio-auto-shutdown-extension.git",
     "pwd && ls",
     "cd sagemaker-studio-auto-shutdown-extension && ./install_tarball.sh" >>

(* ---------------- inputs ---------------- *)
EventDomainIds == {"d-A"}
EventDomainIdsLower == {"d-a"}
EnvDomainIds == {"d-env"}
ListedDomainIds == {"d-1", "d-2"}
UserNames == {"u1"}

\* Each field may be missing, null or a string, under either spelling; the
\* second spelling is given only when the first does not hold a string.
Events ==
  { e \in [ DomainId : {Absent, None} \cup EventDomainIds,
            domainId : {Absent, None} \cup EventDomainIdsLower,
            UserProfileName : {Absent, None} \cup UserNames,
            userProfileName : {Absent, None} \cup UserNames ] :
      /\ e.DomainId \in EventDomainIds => e.domainId = Absent
      /\ e.UserProfileName \in UserNames => e.userProfileName = Absent }

(* the lists smclient.list_domains() may return: DomainId of each entry *)
DomainLists == UNION { [1..n -> ListedDomainIds] : n \in 0..MaxDomains }

NotListed == << None >>

(* ---------------- text: a python str is the sequence of its characters ---------------- *)
Digits == {"0", "1", "2", "3", "4", "5", "6", "7", "8", "9"}

\* PROMPT_REGEX = r"bash-[\d\.]+\$ $", compiled with re.MULTILINE
PromptLiteral == << "b", "a", "s", "h", "-" >>
PromptClass == Digits \cup {"."}

\* mutant: "$" of a pattern compiled without re.MULTILINE: the end of the
\* string, or just before a newline that ends the string
AtLineEnd_NoMultiline(s, p) == p = Len(s) + 1 \/ (p = Len(s) /\ s[p] = "\n")

\* "$" of a MULTILINE pattern at position p (from 1) of s: the end of the
\* string, or just before a newline
AtLineEnd(s, p) == p = Len(s) + 1 \/ (p <= Len(s) /\ s[p] = "\n")

\* the pattern matches s from position i with n characters of the class
MatchAt(s, i, n) ==
  /\ i + 4 + n + 2 <= Len(s)
  /\ \A k \in 1..5 : s[i + k - 1] = PromptLiteral[k]
  /\ \A k \in 1..n : s[i + 4 + k] \in PromptClass
  /\ s[i + 5 + n] = "$"
  /\ s[i + 6 + n] = " "
  /\ AtLineEnd(s, i + 7 + n)

\* prompt_exp.search(s) is not None
PromptSearch(s) ==
  \E i \in 1..Len(s) : \E n \in 1..Len(s) : MatchAt(s, i, n)

P_prompt51 == << "b", "a", "s", "h", "-", "5", ".", "1", "$", " " >>
P_hi == << "h", "i", "\n" >>
P_computing == P_prompt51 \o << "c", "o", "m", "p" >>
P_multiline == << "o", "k", "\n", "b", "a", "s", "h", "-", "4", ".", "2", "$", " ", "\n", "x" >>
P_cr == P_prompt51 \o << "\r", "\n" >>
P_noversion == << "b", "a", "s", "h", "-", "$", " " >>

P_prompt5116 == << "b", "a", "s", "h", "-", "5", ".", "1", ".", "1", "6", "$", " " >>
P_prompt42 == << "b", "a", "s", "h", "-", "4", ".", "2", "$", " " >>

Payloads == { P_prompt51, P_hi, P_computing, P_multiline, P_cr, P_noversion,
              P_prompt5116, P_prompt42 }

\* payloads built from at most MaxPieces pieces of text
Pieces == { PromptLiteral, << "5" >>, << "." >>, << "$" >>, << " " >>, << "\n" >>, << "x" >> }

RECURSIVE Flatten(_)
Flatten(ps) == IF ps = << >> THEN << >> ELSE Head(ps) \o Flatten(Tail(ps))

TextPayloads ==
  Payloads \cup { Flatten(ps) : ps \in UNION { [1..n -> Pieces] : n \in 0..MaxPieces } }

(* ---------------- inbound frames ---------------- *)
\* A frame is the JSON text ws.recv() returned, by the value it denotes:
\* kind "invalid" is text that is not JSON; an "array" has n elements, the
\* first the string s0 and the second the string s1 (t1 = "str") or a
\* number (t1 = "num").
Frame(kind, n, s0, t1, s1) == [kind |-> kind, n |-> n, s0 |-> s0, t1 |-> t1, s1 |-> s1]
NoFrame == Frame("none", 0, "", "str", << >>)
Streams == {"setup", "stdin", "stdout", "stderr"}

Frames ==
  { Frame("array", 2, "stdout", "str", p) : p \in {P_prompt51, P_hi, P_computing, P_multiline} }
  \cup { Frame("array", 2, st, "str", P_prompt51) : st \in Streams }
  \cup { Frame("array", 2, "stdout", "num", << >>),
         Frame("array", 1, "stdout", "str", << >>),
         Frame("object", 0, "", "str", << >>),
         Frame("invalid", 0, "", "str", << >>) }

\* an optional str: python None, or a value
NoneStr == [some |-> FALSE, v |-> << >>]
Some(v) == [some |-> TRUE, v |-> v]

\* the exception of json.loads(frame) followed by the subscript frame[i], or None
SubscriptError(f, i) ==
  CASE f.kind = "invalid" -> JSONDecodeError
    [] f.kind = "object" -> KeyError
    [] f.kind = "number" -> TypeError
    [] f.kind = "array" /\ f.n <= i -> IndexError
    [] OTHER -> None

VARIABLES
  event,              \* the invocation input
  ENV_DOMAIN_ID,      \* os.environ.get("SAGEMAKER_DOMAIN_ID"), None or a string
  pc,                 \* position of the run
  domain_id,          \* local of lambda_handler
  user_profile_name,  \* local of lambda_handler
  domains,            \* local of get_domain_id (the list returned by the control plane)
  error,              \* the exception that ended the run, or None
  ops,                \* the external operations performed so far, in order
  presigned_req,      \* arguments of create_presigned_domain_url, empty before the call
  xsrf,               \* reqsess.cookies["_xsrf"], None while the cookie is absent
  app_status,         \* local of run_commands
  status_log,         \* the texts the status endpoint returned, in order
  post_xsrf,          \* the _xsrf parameter of the terminal POST, None before it
  ws,                 \* the websocket: "none", "open" or "closed"
  setup,              \* local of run_commands
  setup_read,         \* an inbound message with stream "setup" has been read
  ix,                 \* index (from 1) of the command of COMMAND_SCRIPT in hand
  sent,               \* the messages given to ws.send, in order
  res,                \* the inbound frame read last
  recvs,              \* number of ws.recv calls that returned a frame
  matches,            \* number of prompt matches that ended a wait
  terminal_body,      \* the body the terminal POST answered with, None before it
  inflight,           \* remote shell: the frames it wrote that are not yet read
  shell_attached,     \* remote shell: it is attached to the websocket
  shell_done,         \* remote shell: number of commands it has finished
  shell_out           \* remote shell: output lines of the command now running

handler_vars == << event, ENV_DOMAIN_ID, domain_id, user_profile_name, domains >>
http_vars == << presigned_req, xsrf, app_status, status_log, post_xsrf, terminal_body >>
ws_vars == << ws, setup, setup_read, ix, sent, res, recvs, matches >>
shell_vars == << inflight, shell_attached, shell_done, shell_out >>
vars == << event, ENV_DOMAIN_ID, pc, domain_id, user_profile_name, domains, error, ops,
           presigned_req, xsrf, app_status, status_log, post_xsrf, terminal_body,
           ws, setup, setup_read, ix, sent, res, recvs, matches,
           inflight, shell_attached, shell_done, shell_out >>

(* ---------------- helpers ---------------- *)
\* dict.get(key, default): the value under the key when the key is present
\* (also when that value is None), the default otherwise
DictGet(d, key, default) == IF d[key] = Absent THEN default ELSE d[key]

\* truthiness of an optional string
Truthy(s) == s # None /\ s # ""

Count(op) == Cardinality({ i \in DOMAIN ops : ops[i] = op })

\* the frames read so far that neither advanced the script nor were the
\* setup message
Noise == recvs - matches - (IF setup.some THEN 1 ELSE 0)

\* mutant: more than one domain is not refused
SelectDomain_NoAmbiguityCheck(doms) ==
  IF Len(doms) = 0 THEN [raise |-> IndexError, value |-> None]
  ELSE [raise |-> None, value |-> doms[1]]

\* the body of get_domain_id after list_domains() returned doms
SelectDomain(doms) ==
  IF Len(doms) < 0 THEN [raise |-> NoDomainsError, value |-> None]
  ELSE IF Len(doms) > 1 THEN [raise |-> MultipleDomainsError, value |-> None]
  ELSE IF Len(doms) = 0 THEN [raise |-> IndexError, value |-> None]
  ELSE [raise |-> None, value |-> doms[1]]

\* an exception outside the try block ends the run
Raise(e) == /\ error' = e
            /\ pc' = "done"

\* mutant: the exception leaves run_commands without the finally clause
RaiseInTry_NoFinally(e) == /\ error' = e
                           /\ pc' = "done"

\* mutant: after the exception the script goes on with the next send
RaiseInTry_Retry(e) == /\ error' = e
                       /\ pc' = "send"

\* an exception inside the try block passes through the finally clause
RaiseInTry(e) == /\ error' = e
                 /\ pc' = "finally"

(* ---------------- state after construction ---------------- *)
Init ==
  /\ event \in Events
  /\ ENV_DOMAIN_ID \in {None} \cup EnvDomainIds
  /\ pc = "handler"
  /\ domain_id = None
  /\ user_profile_name = None
  /\ domains = NotListed
  /\ error = None
  /\ ops = << >>
  /\ presigned_req = << >>
  /\ xsrf = None
  /\ app_status = None
  /\ status_log = << >>
  /\ post_xsrf = None
  /\ ws = "none"
  /\ setup = NoneStr
  /\ setup_read = FALSE
  /\ ix = 0
  /\ sent = << >>
  /\ res = NoFrame
  /\ recvs = 0
  /\ matches = 0
  /\ terminal_body = None
  /\ inflight = << >>
  /\ shell_attached = FALSE
  /\ shell_done = 0
  /\ shell_out = 0

(* ---------------- lambda_handler ---------------- *)
LookupDomainId ==
  /\ pc = "handler"
  /\ domain_id' = DictGet(event, "DomainId", DictGet(event, "domainId", None))
  /\ pc' = IF domain_id' = None THEN "get_domain_id" ELSE "lookup_user"
  /\ UNCHANGED << event, ENV_DOMAIN_ID, user_profile_name, domains, error, ops >>
  /\ UNCHANGED << http_vars, ws_vars, shell_vars >>

GetDomainIdFromEnv ==
  /\ pc = "get_domain_id"
  /\ IF Truthy(ENV_DOMAIN_ID)
       THEN /\ domain_id' = ENV_DOMAIN_ID
            /\ pc' = "lookup_user"
       ELSE /\ domain_id' = domain_id
            /\ pc' = "list_domains"
  /\ UNCHANGED << event, ENV_DOMAIN_ID, user_profile_name, domains, error, ops >>
  /\ UNCHANGED << http_vars, ws_vars, shell_vars >>

ListDomains ==
  /\ pc = "list_domains"
  /\ ops' = Append(ops, "list_domains")
  /\ \/ \E doms \in DomainLists :
          /\ domains' = doms
          /\ LET r == SelectDomain(doms) IN
               IF r.raise # None
                 THEN Raise(r.raise) /\ domain_id' = domain_id
                 ELSE /\ domain_id' = r.value
                      /\ pc' = "lookup_user"
                      /\ error' = error
     \/ /\ Raise(ClientError)
        /\ UNCHANGED << domains, domain_id >>
  /\ UNCHANGED << event, ENV_DOMAIN_ID, user_profile_name >>
  /\ UNCHANGED << http_vars, ws_vars, shell_vars >>

LookupUser ==
  /\ pc = "lookup_user"
  /\ user_profile_name' =
       DictGet(event, "UserProfileName", DictGet(event, "userProfileName", None))
  /\ IF user_profile_name' = None
       THEN Raise(MissingUserError)
       ELSE pc' = "presign" /\ error' = error
  /\ UNCHANGED << event, ENV_DOMAIN_ID, domain_id, domains, ops >>
  /\ UNCHANGED << http_vars, ws_vars, shell_vars >>

(* ---------------- run_commands: session and readiness ---------------- *)
Tokens == {"tok"}
Statuses == {"Pending", "Failed", "InService", "Terminated"}
StopStatuses == {"InService", "Terminated"}

\* the cookie jar after a response that sets the _xsrf cookie to c, or
\* does not set it (c = None)
SetCookie(jar, c) == IF c # None THEN c ELSE jar

\* mutant: the wait is entered whatever the cookie jar holds
WaitNeeded_Always(jar) == TRUE

\* "_xsrf" not in reqsess.cookies
WaitNeeded(jar) == jar = None

\* mutant: only InService ends the polling loop
KeepPolling_OnlyInService(status) == status # "InService"

\* mutant: the status text Failed also ends the polling loop
KeepPolling_GiveUpOnFailed(status) == status \notin (StopStatuses \cup {"Failed"})

\* mutant: the loop has no exit
KeepPolling_Forever(status) == TRUE

\* the condition of the polling loop
KeepPolling(status) == status \notin StopStatuses

CreatePresignedUrl ==
  /\ pc = "presign"
  /\ ops' = Append(ops, "create_presigned_domain_url")
  /\ presigned_req' = << domain_id, user_profile_name >>
  /\ \/ pc' = "login" /\ error' = error
     \/ Raise(ClientError)
  /\ UNCHANGED << handler_vars, xsrf, app_status, status_log, post_xsrf, terminal_body >>
  /\ UNCHANGED << ws_vars, shell_vars >>

Login ==
  /\ pc = "login"
  /\ ops' = Append(ops, "login_get")
  /\ \/ \E c \in {None} \cup Tokens :
          /\ xsrf' = SetCookie(xsrf, c)
          /\ error' = error
          /\ IF WaitNeeded(xsrf')
               THEN /\ app_status' = "Unknown"
                    /\ pc' = IF KeepPolling(app_status') THEN "sleep" ELSE "after_wait"
               ELSE /\ app_status' = app_status
                    /\ pc' = "create_terminal"
     \/ /\ Raise(ConnectionError)
        /\ UNCHANGED << xsrf, app_status >>
  /\ UNCHANGED << handler_vars, presigned_req, status_log, post_xsrf, terminal_body >>
  /\ UNCHANGED << ws_vars, shell_vars >>

\* mutant: the poll is not preceded by a sleep
Sleep_Skipped ==
  /\ pc = "sleep"
  /\ pc' = "poll"
  /\ UNCHANGED << handler_vars, error, ops, http_vars, ws_vars, shell_vars >>

Sleep ==
  /\ pc = "sleep"
  /\ ops' = Append(ops, "sleep")
  /\ pc' = "poll"
  /\ UNCHANGED << handler_vars, error, http_vars, ws_vars, shell_vars >>

PollStatus ==
  /\ pc = "poll"
  /\ Len(status_log) < MaxPolls
  /\ ops' = Append(ops, "status_get")
  /\ \/ \E st \in Statuses, c \in {None} \cup Tokens :
          /\ app_status' = st
          /\ status_log' = Append(status_log, st)
          /\ xsrf' = SetCookie(xsrf, c)
          /\ pc' = IF KeepPolling(st) THEN "sleep" ELSE "after_wait"
          /\ error' = error
     \/ /\ Raise(ConnectionError)
        /\ UNCHANGED << xsrf, app_status, status_log >>
  /\ UNCHANGED << handler_vars, presigned_req, post_xsrf, terminal_body, ws_vars, shell_vars >>

AfterWait ==
  /\ pc = "after_wait"
  /\ IF app_status = "InService"
       THEN /\ ops' = Append(ops, "prime_get")
            /\ \/ \E c \in {None} \cup Tokens :
                    /\ xsrf' = SetCookie(xsrf, c)
                    /\ pc' = "create_terminal"
                    /\ error' = error
               \/ /\ Raise(ConnectionError)
                  /\ xsrf' = xsrf
       ELSE /\ Raise(UnusableStatusError)
            /\ UNCHANGED << ops, xsrf >>
  /\ UNCHANGED << handler_vars, presigned_req, app_status, status_log, post_xsrf, terminal_body >>
  /\ UNCHANGED << ws_vars, shell_vars >>

(* ---------------- run_commands: terminal and websocket ---------------- *)
\* bodies the terminal POST may answer with
TerminalBodies == {"json_with_name", "json_without_name", "not_json"}

\* mutant: the cookie is read with a default, the POST goes out without it
HasXsrf_Unchecked(jar) == TRUE

\* "_xsrf" in reqsess.cookies: the subscript reqsess.cookies["_xsrf"] succeeds
HasXsrf(jar) == jar # None

\* mutant: the name is not read before the websocket is created
TerminalError_NameUnchecked(body) ==
  CASE body = "not_json" -> JSONDecodeError
    [] OTHER -> None

\* terminal_resp.json() and terminal['name'] for the body: the exception
\* raised before the websocket is created, or None
TerminalError(body) ==
  CASE body = "not_json" -> JSONDecodeError
    [] body = "json_without_name" -> KeyError
    [] OTHER -> None

CreateTerminal ==
  /\ pc = "create_terminal"
  /\ IF ~HasXsrf(xsrf)
       THEN /\ Raise(KeyError)
            /\ UNCHANGED << ops, post_xsrf, terminal_body >>
       ELSE /\ ops' = Append(ops, "terminal_post")
            /\ post_xsrf' = xsrf
            /\ \/ \E body \in TerminalBodies :
                    /\ terminal_body' = body
                    /\ IF TerminalError(body) # None
                         THEN Raise(TerminalError(body))
                         ELSE pc' = "connect" /\ error' = error
               \/ /\ Raise(ConnectionError)
                  /\ terminal_body' = terminal_body
  /\ UNCHANGED << handler_vars, presigned_req, xsrf, app_status, status_log, ws_vars, shell_vars >>

CreateConnection ==
  /\ pc = "connect"
  /\ \/ /\ ops' = Append(ops, "ws_open")
        /\ ws' = "open"
        /\ pc' = "await_setup"
        /\ error' = error
     \/ /\ Raise(WebSocketError)
        /\ UNCHANGED << ops, ws >>
  /\ setup' = setup
  /\ UNCHANGED << handler_vars, http_vars, setup_read, ix, sent, res, recvs, matches, shell_vars >>

\* the condition of the loop that waits for the setup message
SetupLoopCond(s) == s.some

\* the first command, or the end of the script
EnterScript == IF Len(COMMAND_SCRIPT) >= 1 THEN "send" ELSE "finally"

AwaitSetup ==
  /\ pc = "await_setup"
  /\ IF SetupLoopCond(setup)
       THEN /\ \/ \E f \in Frames :
                    /\ Noise < MaxNoise \/ (SubscriptError(f, 0) = None /\ f.s0 = "setup")
                    /\ res' = f
                    /\ recvs' = recvs + 1
                    /\ IF SubscriptError(f, 0) # None
                         THEN /\ RaiseInTry(SubscriptError(f, 0))
                              /\ UNCHANGED << setup, setup_read >>
                         ELSE IF f.s0 = "setup"
                           THEN IF SubscriptError(f, 1) # None
                                  THEN /\ RaiseInTry(SubscriptError(f, 1))
                                       /\ UNCHANGED << setup, setup_read >>
                                  ELSE /\ setup' = Some(f.s1)
                                       /\ setup_read' = TRUE
                                       /\ UNCHANGED << pc, error >>
                           ELSE UNCHANGED << pc, error, setup, setup_read >>
               \/ /\ RaiseInTry(WebSocketError)
                  /\ UNCHANGED << res, recvs, setup, setup_read >>
            /\ ix' = ix
       ELSE /\ pc' = EnterScript
            /\ ix' = 1
            /\ UNCHANGED << error, res, recvs, setup, setup_read >>
  /\ UNCHANGED << handler_vars, ops, http_vars, ws, sent, matches, shell_vars >>

\* json.dumps(["stdin", c + "\n"]): the message of command c
StdinMessage(c) == [stream |-> "stdin", payload |-> << c, "\n" >>]

SendCommand ==
  /\ pc = "send"
  /\ \/ /\ ops' = Append(ops, "stdin")
        /\ sent' = Append(sent, StdinMessage(COMMAND_SCRIPT[ix]))
        /\ pc' = "recv"
        /\ error' = error
     \/ /\ RaiseInTry(WebSocketError)
        /\ UNCHANGED << ops, sent >>
  /\ UNCHANGED << handler_vars, http_vars, ws, setup, setup_read, ix, res, recvs, matches, shell_vars >>

\* mutant: the stream of the message is not looked at
PromptStep_AnyStream(f) ==
  IF SubscriptError(f, 0) # None THEN [raise |-> SubscriptError(f, 0), brk |-> FALSE]
  ELSE IF SubscriptError(f, 1) # None THEN [raise |-> SubscriptError(f, 1), brk |-> FALSE]
  ELSE IF f.t1 # "str" THEN [raise |-> TypeError, brk |-> FALSE]
  ELSE [raise |-> None, brk |-> PromptSearch(f.s1)]

\* mutant: output on stderr is taken for a failure
PromptStep_StderrFails(f) ==
  IF SubscriptError(f, 0) # None THEN [raise |-> SubscriptError(f, 0), brk |-> FALSE]
  ELSE IF SubscriptError(f, 1) # None THEN [raise |-> SubscriptError(f, 1), brk |-> FALSE]
  ELSE IF f.s0 = "stdout"
    THEN IF f.t1 # "str" THEN [raise |-> TypeError, brk |-> FALSE]
         ELSE [raise |-> None, brk |-> PromptSearch(f.s1)]
    ELSE IF f.s0 = "stderr" THEN [raise |-> WebSocketError, brk |-> FALSE]
    ELSE [raise |-> None, brk |-> FALSE]

\* what one pass of the inner loop does with the frame f: the exception it
\* raises, or None, and whether it breaks out of the loop
PromptStep(f) ==
  IF SubscriptError(f, 0) # None THEN [raise |-> SubscriptError(f, 0), brk |-> FALSE]
  ELSE IF SubscriptError(f, 1) # None THEN [raise |-> SubscriptError(f, 1), brk |-> FALSE]
  ELSE IF f.s0 = "stdout"
    THEN IF f.t1 # "str" THEN [raise |-> TypeError, brk |-> FALSE]
         ELSE [raise |-> None, brk |-> PromptSearch(f.s1)]
    ELSE [raise |-> None, brk |-> FALSE]

\* mutant: the loop stops one command early
AfterBreak_OffByOne(i) == IF i + 1 < Len(COMMAND_SCRIPT) THEN "send" ELSE "finally"

\* the for loop after a break at index i: the next command, or the end
AfterBreak(i) == IF i + 1 <= Len(COMMAND_SCRIPT) THEN "send" ELSE "finally"

\* one pass of the inner loop over the frame f that ws.recv() returned
ReceiveFrame(f) ==
  /\ res' = f
  /\ recvs' = recvs + 1
  /\ setup_read' = (setup_read \/ (SubscriptError(f, 0) = None /\ f.s0 = "setup"))
  /\ LET r == PromptStep(f) IN
       IF r.raise # None
         THEN /\ RaiseInTry(r.raise)
              /\ UNCHANGED << ix, matches >>
         ELSE IF r.brk
           THEN /\ matches' = matches + 1
                /\ ix' = ix + 1
                /\ pc' = AfterBreak(ix)
                /\ error' = error
           ELSE UNCHANGED << pc, error, ix, matches >>
  /\ UNCHANGED << handler_vars, ops, http_vars, ws, setup, sent >>

\* ws.recv() raises
ReceiveFails ==
  /\ RaiseInTry(WebSocketError)
  /\ UNCHANGED << res, recvs, setup_read, ix, matches >>
  /\ UNCHANGED << handler_vars, ops, http_vars, ws, setup, sent >>

ReceiveOutput ==
  /\ pc = "recv"
  /\ \/ \E f \in Frames :
          /\ Noise < MaxNoise \/ PromptStep(f).brk \/ PromptStep(f).raise # None
          /\ ReceiveFrame(f)
     \/ ReceiveFails
  /\ UNCHANGED shell_vars

\* mutant: close is called in an except clause and again in finally
Finally_Twice ==
  /\ pc = "finally"
  /\ ops' = ops \o << "ws_close", "ws_close" >>
  /\ ws' = "closed"
  /\ pc' = "done"
  /\ UNCHANGED << handler_vars, error, http_vars, setup, setup_read, ix, sent, res, recvs, matches >>
  /\ UNCHANGED shell_vars

Finally ==
  /\ pc = "finally"
  /\ ops' = Append(ops, "ws_close")
  /\ ws' = "closed"
  /\ pc' = "done"
  /\ UNCHANGED << handler_vars, error, http_vars, setup, setup_read, ix, sent, res, recvs, matches >>
  /\ UNCHANGED shell_vars

Next ==
  \/ LookupDomainId
  \/ GetDomainIdFromEnv
  \/ ListDomains
  \/ LookupUser
  \/ CreatePresignedUrl
  \/ Login
  \/ Sleep
  \/ PollStatus
  \/ AfterWait
  \/ CreateTerminal
  \/ CreateConnection
  \/ AwaitSetup
  \/ SendCommand
  \/ ReceiveOutput
  \/ Finally

Spec == Init /\ [][Next]_vars

(* ---------------- the prompt pattern over bounded payloads ---------------- *)
\* the run stands in the wait for the first command's prompt
InitPrompt ==
  /\ event = [ DomainId |-> "d-A", domainId |-> Absent,
               UserProfileName |-> "u1", userProfileName |-> Absent ]
  /\ ENV_DOMAIN_ID = None
  /\ pc = "recv"
  /\ domain_id = "d-A"
  /\ user_profile_name = "u1"
  /\ domains = NotListed
  /\ error = None
  /\ ops = << "create_presigned_domain_url", "login_get", "terminal_post", "ws_open", "stdin" >>
  /\ presigned_req = << "d-A", "u1" >>
  /\ xsrf = "tok"
  /\ app_status = None
  /\ status_log = << >>
  /\ post_xsrf = "tok"
  /\ terminal_body = "json_with_name"
  /\ ws = "open"
  /\ setup = NoneStr
  /\ setup_read = FALSE
  /\ ix = 1
  /\ sent = << StdinMessage(COMMAND_SCRIPT[1]) >>
  /\ res = NoFrame
  /\ recvs = 0
  /\ matches = 0
  /\ inflight = << >>
  /\ shell_attached = FALSE
  /\ shell_done = 0
  /\ shell_out = 0

\* the first frame read is a stdout message with any of the payloads
ReceiveText ==
  /\ pc = "recv"
  /\ recvs = 0
  /\ \E p \in TextPayloads : ReceiveFrame(Frame("array", 2, "stdout", "str", p))
  /\ UNCHANGED shell_vars

NextPrompt == ReceiveText

PromptSpec == InitPrompt /\ [][NextPrompt]_vars

(* ---------------- the run against a remote shell ---------------- *)
\* the run stands before the presigned URL request of run_commands
ShellInit ==
  /\ event = [ DomainId |-> "d-A", domainId |-> Absent,
               UserProfileName |-> "u1", userProfileName |-> Absent ]
  /\ ENV_DOMAIN_ID = None
  /\ pc = "presign"
  /\ domain_id = "d-A"
  /\ user_profile_name = "u1"
  /\ domains = NotListed
  /\ error = None
  /\ ops = << >>
  /\ presigned_req = << >>
  /\ xsrf = None
  /\ app_status = None
  /\ status_log = << >>
  /\ post_xsrf = None
  /\ terminal_body = None
  /\ ws = "none"
  /\ setup = NoneStr
  /\ setup_read = FALSE
  /\ ix = 0
  /\ sent = << >>
  /\ res = NoFrame
  /\ recvs = 0
  /\ matches = 0
  /\ inflight = << >>
  /\ shell_attached = FALSE
  /\ shell_done = 0
  /\ shell_out = 0

\* what the terminal writes to the websocket
SetupFrame == Frame("array", 2, "setup", "str", << >>)
PromptFrame == Frame("array", 2, "stdout", "str", P_prompt51)
OutputFrame == Frame("array", 2, "stdout", "str", P_hi)

\* every request of the step succeeds; the status endpoint answers
\* Pending or Failed and, at the latest on poll MaxPolls, InService; the
\* server sets the _xsrf cookie at the latest on the priming GET
Reliable ==
  /\ error' = None
  /\ app_status' # "Terminated"
  /\ Len(status_log') = MaxPolls => app_status' = "InService"
  /\ pc' = "create_terminal" => xsrf' # None

\* the shell attaches to the websocket: the setup message and the first prompt
ShellAttach ==
  /\ ws = "open"
  /\ ~shell_attached
  /\ shell_attached' = TRUE
  /\ inflight' = inflight \o << SetupFrame, PromptFrame >>
  /\ UNCHANGED << handler_vars, pc, error, ops, http_vars, ws_vars, shell_done, shell_out >>

\* the command the shell runs writes a message of output
ShellOutput ==
  /\ shell_attached
  /\ ws = "open"
  /\ shell_done < Len(sent)
  /\ shell_out < MaxOutput
  /\ shell_out' = shell_out + 1
  /\ inflight' = Append(inflight, OutputFrame)
  /\ UNCHANGED << handler_vars, pc, error, ops, http_vars, ws_vars, shell_attached, shell_done >>

\* the command the shell runs finishes and the shell shows its prompt again
ShellFinish ==
  /\ shell_attached
  /\ ws = "open"
  /\ shell_done < Len(sent)
  /\ shell_done' = shell_done + 1
  /\ shell_out' = 0
  /\ inflight' = Append(inflight, PromptFrame)
  /\ UNCHANGED << handler_vars, pc, error, ops, http_vars, ws_vars, shell_attached >>

\* ws.recv() returns the oldest message the terminal wrote
ShellDeliver ==
  /\ pc = "recv"
  /\ inflight # << >>
  /\ ReceiveFrame(Head(inflight))
  /\ inflight' = Tail(inflight)
  /\ UNCHANGED << shell_attached, shell_done, shell_out >>

ReliablePresign == CreatePresignedUrl /\ Reliable
ReliableLogin == Login /\ Reliable
ReliablePoll == PollStatus /\ Reliable
ReliablePrime == AfterWait /\ Reliable
ReliableTerminal == CreateTerminal /\ Reliable
ReliableConnection == CreateConnection /\ Reliable
ReliableSend == SendCommand /\ Reliable

DriverStep ==
  \/ ReliablePresign
  \/ ReliableLogin
  \/ Sleep
  \/ ReliablePoll
  \/ ReliablePrime
  \/ ReliableTerminal
  \/ ReliableConnection
  \/ AwaitSetup
  \/ ReliableSend
  \/ ShellDeliver
  \/ Finally

ShellStep ==
  \/ ShellAttach
  \/ ShellOutput
  \/ ShellFinish

NextShell == DriverStep \/ ShellStep

\* the driver keeps running and the shell keeps running
ShellSpec == ShellInit /\ [][NextShell]_vars /\ WF_vars(DriverStep) /\ WF_vars(ShellStep)

(* ======================= properties ======================= *)
ScriptLen == Len(COMMAND_SCRIPT)
Completed == pc = "done" /\ error = None /\ ws = "closed"

\* the tenant ids the event holds, under either spelling
EventTenants == {event.DomainId, event.domainId} \ {Absent, None}
NoTenantSupplied == EventTenants = {} /\ ENV_DOMAIN_ID = None

\* C1: before the first "stdin" message is sent, an inbound message whose
\* stream is "setup" has been read.
C1_SetupBeforeFirstStdin == (sent # << >>) => setup_read

\* C2: with no tenant id from the event or the environment and an empty
\* tenant list, the run fails with the "no domains" configuration error and
\* requests no presigned URL.
C2_EmptyListIsConfigurationError ==
  (NoTenantSupplied /\ domains = << >> /\ pc = "done")
     => (error = NoDomainsError /\ Count("create_presigned_domain_url") = 0)

\* C3: once the websocket is open, close is invoked exactly once on every
\* exit path: no run ends with the websocket open, none closes it twice,
\* and none closes what it did not open.
C3_CloseExactlyOnce ==
  /\ Count("ws_close") <= Count("ws_open")
  /\ Count("ws_open") <= 1
  /\ (pc = "done" /\ Count("ws_open") = 1) => (Count("ws_close") = 1 /\ ws = "closed")
  /\ (ws = "open") <=> (Count("ws_open") = 1 /\ Count("ws_close") = 0)

\* C3 witness: a run that failed after its second command was sent has
\* closed the websocket once.
C3_Witness ==
  /\ pc = "done"
  /\ error \in {WebSocketError, JSONDecodeError, IndexError, KeyError, TypeError}
  /\ Len(sent) = 2
  /\ Count("ws_close") = 1

\* C4: the commands are sent in script order, each once; command k+1 is
\* sent only after a prompt match that followed the send of command k; a
\* completed run made ScriptLen sends, ScriptLen matches and one close.
C4_InOrderOncePerPrompt ==
  /\ Len(sent) <= ScriptLen
  /\ \A k \in 1..Len(sent) : sent[k] = StdinMessage(COMMAND_SCRIPT[k])
  /\ Count("stdin") = Len(sent)
  /\ matches <= Len(sent)
  /\ Len(sent) <= matches + 1
  /\ Completed =>
       /\ Count("stdin") = ScriptLen
       /\ matches = ScriptLen
       /\ Count("ws_close") = 1
       /\ ScriptLen = 3

\* C4 witness: a completed run of the three-command script.
C4_Witness == Completed /\ Len(sent) = 3 /\ matches = 3

\* the frame is a message on stream "stdout" whose payload matches the prompt
IsPromptMessage(f) ==
  /\ f.kind = "array"
  /\ f.n >= 2
  /\ f.s0 = "stdout"
  /\ f.t1 = "str"
  /\ PromptSearch(f.s1)

\* C5: while a prompt is awaited, a frame read advances the script if and
\* only if it is a stdout message whose payload matches the prompt, and then
\* by exactly one command; "hi\n" on stdout and a prompt on another stream
\* do not advance.
C5_AdvanceIffStdoutPrompt ==
  [][ (pc = "recv" /\ recvs' = recvs + 1) =>
        /\ (ix' = ix + 1 /\ matches' = matches + 1) <=> IsPromptMessage(res')
        /\ ~IsPromptMessage(res') => (ix' = ix /\ matches' = matches /\ sent' = sent)
        /\ res' = Frame("array", 2, "stdout", "str", P_hi) => (ix' = ix /\ pc' = "recv")
        /\ (res'.kind = "array" /\ res'.s0 # "stdout") => (ix' = ix /\ pc' = "recv")
        /\ res' = Frame("array", 2, "stdout", "str", P_prompt51) => ix' = ix + 1 ]_vars

\* C5 witness: the first command's wait read one frame that did not advance
\* and then one prompt that did.
C5_Witness == ix = 2 /\ recvs = 2 /\ matches = 1 /\ IsPromptMessage(res) /\ pc = "send"

\* the operations of the readiness wait, in the order they were made
WaitOps == SelectSeq(ops, LAMBDA o : o \in {"sleep", "status_get", "prime_get"})
PendingPendingInService == << "Pending", "Pending", "InService" >>
ThreeCycles == << "sleep", "status_get", "sleep", "status_get", "sleep", "status_get" >>

\* C6 (as stated): for the status sequence Pending, Pending, InService the
\* wait makes exactly 2 sleep+poll cycles, then one priming GET, and goes on
\* to terminal creation.
C6_TwoCycles ==
  (status_log = PendingPendingInService /\ pc = "create_terminal")
     => /\ Count("sleep") = 2
        /\ Count("status_get") = 2
        /\ Count("prime_get") = 1

\* C6 (amended): for the status sequence Pending, Pending, InService the
\* wait makes exactly 3 sleep+poll cycles, each poll preceded by one sleep,
\* then exactly one priming GET, and when that GET returns the run is at
\* terminal creation.
C6_ThreeCycles ==
  status_log = PendingPendingInService =>
     /\ pc = "after_wait" => WaitOps = ThreeCycles
     /\ pc # "after_wait" => WaitOps = ThreeCycles \o << "prime_get" >>
     /\ (pc # "after_wait" /\ ops[Len(ops)] = "prime_get") =>
           \/ pc = "create_terminal" /\ error = None
           \/ pc = "done" /\ error \in {ConnectionError, KeyError}

\* C6 witness: the three statuses were returned and the run stands at
\* terminal creation.
C6_Witness == status_log = PendingPendingInService /\ pc = "create_terminal"

LastStatus == status_log[Len(status_log)]

\* C7: when a poll returns Terminated the run fails with the unusable-status
\* error, and makes no further poll, no priming GET, no terminal POST and
\* opens no websocket.
C7_TerminatedEndsRun ==
  (status_log # << >> /\ LastStatus = "Terminated") =>
     /\ pc \in {"after_wait", "done"}
     /\ pc = "done" => error = UnusableStatusError
     /\ ops[Len(ops)] = "status_get"
     /\ Count("status_get") = Len(status_log)
     /\ Count("prime_get") = 0
     /\ Count("terminal_post") = 0
     /\ Count("ws_open") = 0

\* C7 witness: a run that ended on a Terminated poll after an earlier poll.
C7_Witness ==
  /\ pc = "done"
  /\ error = UnusableStatusError
  /\ Len(status_log) = 2
  /\ LastStatus = "Terminated"

\* C8: the readiness wait is entered if and only if the _xsrf cookie is
\* absent after the login GET; when the login response sets the cookie the
\* run makes no sleep, no status poll and no priming GET and goes directly
\* to terminal creation.
C8_WaitIffCookieAbsent ==
  /\ [][ (pc = "login" /\ pc' # "done") =>
           /\ (xsrf' = None) <=> (pc' = "sleep")
           /\ (xsrf' # None) <=> (pc' = "create_terminal")
           /\ (xsrf' = None) <=> (app_status' # None) ]_vars
  /\ [][ (pc # "login" /\ app_status = None) => app_status' = None ]_vars
  /\ [](app_status = None =>
          /\ Count("sleep") = 0
          /\ Count("status_get") = 0
          /\ Count("prime_get") = 0
          /\ pc \notin {"sleep", "poll", "after_wait"})
  /\ [](Count("sleep") > 0 => app_status # None)

\* C8 witness: the login response set the cookie and the terminal POST was
\* made without any wait.
C8_Witness ==
  /\ xsrf # None
  /\ app_status = None
  /\ ops = << "create_presigned_domain_url", "login_get", "terminal_post" >>

\* C9: a tenant id supplied in the event is used unchanged for the presigned
\* URL and list_domains is never called, whatever the tenant list is; the
\* event's id comes before the environment's, which comes before the list.
C9_ExplicitTenantUsed ==
  /\ EventTenants # {} =>
       /\ Count("list_domains") = 0
       /\ pc # "handler" => domain_id \in EventTenants
       /\ presigned_req # << >> => presigned_req[1] \in EventTenants
  /\ (EventTenants = {} /\ ENV_DOMAIN_ID # None) =>
       /\ Count("list_domains") = 0
       /\ pc \notin {"handler", "get_domain_id"} => domain_id = ENV_DOMAIN_ID
       /\ presigned_req # << >> => presigned_req[1] = ENV_DOMAIN_ID

\* C10: when the tenant list is consulted, a list of exactly one element
\* resolves to that element, and a longer list fails with the
\* multiple-domains error, choosing no tenant and requesting no presigned URL.
C10_OneOrAmbiguous ==
  domains # NotListed =>
     /\ Len(domains) = 1 =>
          /\ domain_id = domains[1]
          /\ error \notin {NoDomainsError, MultipleDomainsError}
          /\ (pc = "done" /\ Count("create_presigned_domain_url") = 0)
                => error = MissingUserError
          /\ presigned_req # << >> => presigned_req[1] = domains[1]
     /\ Len(domains) > 1 =>
          /\ pc = "done"
          /\ error = MultipleDomainsError
          /\ domain_id = None
          /\ presigned_req = << >>
          /\ Count("create_presigned_domain_url") = 0

\* C10 witness: the single listed tenant was used for the presigned URL of
\* an event that supplied none.
C10_Witness ==
  /\ NoTenantSupplied
  /\ domains = << "d-2" >>
  /\ presigned_req = << "d-2", "u1" >>

\* the lines of s: s split at every newline
RECURSIVE Lines(_)
Lines(s) ==
  IF \E i \in 1..Len(s) : s[i] = "\n"
    THEN LET i == CHOOSE i \in 1..Len(s) : s[i] = "\n" /\ \A j \in 1..(i - 1) : s[j] # "\n"
         IN << SubSeq(s, 1, i - 1) >> \o Lines(SubSeq(s, i + 1, Len(s)))
    ELSE << s >>

\* the line ends with "bash-", one or more digits or dots, "$" and a space
EndsWithPrompt(line) ==
  \E n \in 1..Len(line) :
     /\ Len(line) >= 7 + n
     /\ LET tail == SubSeq(line, Len(line) - 6 - n, Len(line)) IN
          /\ SubSeq(tail, 1, 5) = << "b", "a", "s", "h", "-" >>
          /\ \A k \in 6..(5 + n) : tail[k] \in Digits \cup {"."}
          /\ tail[6 + n] = "$"
          /\ tail[7 + n] = " "

HasPromptLine(s) == \E i \in 1..Len(Lines(s)) : EndsWithPrompt(Lines(s)[i])

\* C11: a stdout payload ends the wait if and only if one of its lines ends
\* with "bash-", one or more digits or dots, and "$ " with nothing after the
\* space on that line; "bash-5.1.16$ " and "bash-4.2$ " match,
\* "bash-5.1$ computing" does not, a prompt line among other lines does.
C11_MatchIffPromptLine ==
  recvs = 1 =>
     /\ (matches = 1) <=> HasPromptLine(res.s1)
     /\ (matches = 1) <=> (ix = 2 /\ pc = "send")
     /\ res.s1 \in {P_prompt5116, P_prompt42, P_multiline} => matches = 1
     /\ res.s1 \in {P_computing, P_cr, P_noversion} => matches = 0

\* C11 witness: a payload with a line before and a line after the prompt
\* line ended the wait.
C11_Witness == recvs = 1 /\ res.s1 = P_multiline /\ matches = 1

\* the event holds no user id under either spelling
UserLacking == event.UserProfileName = Absent /\ event.userProfileName = Absent
ConfigurationErrors == {MissingUserError, MultipleDomainsError, NoDomainsError}

\* C12: an event without the user id under both spellings fails with a
\* configuration error (unless the control plane call itself fails), and
\* the run requests no presigned URL, makes no HTTP request, creates no
\* terminal and opens no websocket.
C12_MissingUserIsConfigurationError ==
  UserLacking =>
     /\ pc \in {"handler", "get_domain_id", "list_domains", "lookup_user", "done"}
     /\ \A i \in DOMAIN ops : ops[i] = "list_domains"
     /\ presigned_req = << >>
     /\ ws = "none"
     /\ (pc = "done" /\ error # ClientError) => error \in ConfigurationErrors

\* the place of an operation in the order of the run
Rank(op) ==
  CASE op = "list_domains" -> 0
    [] op = "create_presigned_domain_url" -> 1
    [] op = "login_get" -> 2
    [] op \in {"sleep", "status_get"} -> 3
    [] op = "prime_get" -> 4
    [] op = "terminal_post" -> 5
    [] op = "ws_open" -> 6
    [] op = "stdin" -> 7
    [] op = "ws_close" -> 8

OnceOps == {"list_domains", "create_presigned_domain_url", "login_get", "prime_get",
            "terminal_post", "ws_open", "ws_close"}

\* C14: the external operations occur in the order presigned URL, login
\* GET, status polls, priming GET, terminal POST, websocket open, stdin
\* sends, close; the polls and the priming GET only when the wait is
\* entered; each operation but the polls and the sends at most once.
C14_ForwardOrder ==
  /\ \A i, j \in DOMAIN ops : i < j => Rank(ops[i]) <= Rank(ops[j])
  /\ \A o \in OnceOps : Count(o) <= 1
  /\ \A i \in DOMAIN ops :
        /\ ops[i] = "status_get" => (i > 1 /\ ops[i - 1] = "sleep")
        /\ ops[i] = "prime_get" => (i > 1 /\ ops[i - 1] = "status_get")
        /\ Rank(ops[i]) >= 2 => ops[IF Rank(ops[1]) = 0 THEN 2 ELSE 1] = "create_presigned_domain_url"
  /\ Count("sleep") + Count("status_get") + Count("prime_get") > 0 => app_status # None

\* C14 witness: a completed run that listed the tenants and went through
\* the readiness wait.
C14_Witness ==
  /\ Completed
  /\ Count("list_domains") = 1
  /\ Count("status_get") = 2
  /\ Count("prime_get") = 1
  /\ Count("stdin") = 3

\* the frame is a [stream, payload] pair of strings
WellFormed(f) == f.kind = "array" /\ f.n >= 2 /\ f.t1 = "str"

\* C15: while a prompt is awaited, every message read that is not a stdout
\* prompt leaves the driver in the wait: nothing is sent, nothing fails, the
\* websocket stays open; the wait is left only by a prompt match, a
\* malformed frame or a failing receive, never by a timeout.
C15_NoTimeout ==
  [][ pc = "recv" =>
        /\ pc' = "recv" =>
             (sent' = sent /\ ops' = ops /\ error' = error /\ ws' = ws /\ ix' = ix)
        /\ (recvs' = recvs + 1 /\ WellFormed(res') /\ ~IsPromptMessage(res')) =>
             (pc' = "recv" /\ error' = None /\ ws' = "open" /\ matches' = matches)
        /\ pc' # "recv" =>
             \/ recvs' = recvs + 1 /\ (IsPromptMessage(res') \/ ~WellFormed(res'))
             \/ recvs' = recvs /\ error' = WebSocketError /\ pc' = "finally" ]_vars

\* C15 witness: after the second command was sent, a stdout message that is
\* not a prompt was read and the driver still waits.
C15_Witness ==
  /\ pc = "recv"
  /\ Len(sent) = 2
  /\ recvs = 2
  /\ res = Frame("array", 2, "stdout", "str", P_computing)
  /\ error = None
  /\ ws = "open"

NonStop(log) == \A i \in DOMAIN log : log[i] \notin StopStatuses

\* C16: the poll has no attempt ceiling: after n results outside
\* {InService, Terminated} (Pending, Failed, ...) the run has neither failed
\* nor gone on, and cycle n+1 is issued; the result that ends the wait is
\* the result of as many sleep+poll cycles as results were returned.
C16_NoPollCeiling ==
  /\ (app_status # None /\ NonStop(status_log)) =>
       LET n == Len(status_log) IN
         /\ pc \in {"sleep", "poll", "done"}
         /\ pc = "done" => (error = ConnectionError /\ Count("status_get") = n + 1)
         /\ pc # "done" => error = None
         /\ pc = "sleep" => (Count("sleep") = n /\ Count("status_get") = n /\ ENABLED Sleep)
         /\ pc = "poll" => (Count("sleep") = n + 1 /\ Count("status_get") = n)
         /\ Count("prime_get") = 0
         /\ Count("terminal_post") = 0
  /\ (status_log # << >> /\ LastStatus \in StopStatuses) =>
       /\ NonStop(SubSeq(status_log, 1, Len(status_log) - 1))
       /\ Count("sleep") = Len(status_log)
       /\ Count("status_get") = Len(status_log)

\* C16 witness: after Failed and Pending the third cycle has slept and is
\* about to poll.
C16_Witness ==
  /\ status_log = << "Failed", "Pending" >>
  /\ pc = "poll"
  /\ Count("sleep") = 3

\* C17: an error ends the run at once: after it nothing is sent, nothing is
\* sent again, no request is made, and the only operation that follows is
\* the close of an open websocket.
C17_NoRetryNoRollback ==
  /\ [][ error # None =>
           /\ error' = error
           /\ sent' = sent
           /\ ix' = ix
           /\ pc' = "done"
           /\ \/ ops' = ops
              \/ ops' = Append(ops, "ws_close") /\ ws = "open" ]_vars
  /\ [](error # None => pc \in {"finally", "done"})
  /\ []((error # None /\ pc = "finally") => ws = "open")
  /\ []((error # None /\ pc = "done") => ws # "open")

\* C17 witness: a frame with one element failed the wait for the first
\* command; one command was sent and the websocket closed.
C17_Witness ==
  /\ pc = "done"
  /\ error = IndexError
  /\ Len(sent) = 1
  /\ res.n = 1
  /\ ops[Len(ops)] = "ws_close"
  /\ Count("stdin") = 1

\* C18: when the terminal POST answers with a body that is not JSON or has
\* no name, the run fails before any websocket is opened: no open, no stdin
\* send, no close.
C18_BadTerminalBodyFailsEarly ==
  terminal_body \in {"not_json", "json_without_name"} =>
     /\ pc = "done"
     /\ error = (IF terminal_body = "not_json" THEN JSONDecodeError ELSE KeyError)
     /\ ops[Len(ops)] = "terminal_post"
     /\ Count("ws_open") = 0
     /\ Count("stdin") = 0
     /\ Count("ws_close") = 0
     /\ ws = "none"

\* C18 witness: the body had no name and the run ended with KeyError.
C18_Witness ==
  /\ terminal_body = "json_without_name"
  /\ pc = "done"
  /\ error = KeyError

\* C19: the terminal POST is never made without the _xsrf cookie: when it
\* was made the jar held the cookie and its value was the _xsrf parameter;
\* with the cookie still absent after the priming GET the run fails with no
\* POST and no websocket.
C19_PostCarriesXsrf ==
  /\ Count("terminal_post") >= 1 =>
       (xsrf \in Tokens /\ post_xsrf = xsrf)
  /\ xsrf = None =>
       /\ Count("terminal_post") = 0
       /\ Count("ws_open") = 0
       /\ post_xsrf = None
       /\ terminal_body = None
  /\ (xsrf = None /\ Count("prime_get") = 1) =>
       /\ pc \in {"create_terminal", "done"}
       /\ pc = "done" => error \in {KeyError, ConnectionError}

\* C19 witness: the wait reached InService, the priming GET set no cookie
\* and the run ended with KeyError.
C19_Witness ==
  /\ xsrf = None
  /\ Count("prime_get") = 1
  /\ pc = "done"
  /\ error = KeyError

\* C13: with a shell that shows a prompt when it attaches and after each
\* command, the prompt on which the driver advances past command k was
\* written after command k finished: the prompts matched never outnumber
\* the commands finished, and at most one command sent is unfinished.
C13_OneOutstanding ==
  /\ matches <= shell_done
  /\ Len(sent) - shell_done <= 1

\* C20: with a websocket that delivers in order, a shell that shows a
\* prompt after every command, and a status endpoint that answers
\* InService in the end, the run reaches Complete, closes the websocket
\* and returns with no error.
C20_EventuallyComplete ==
  (pc = "presign") ~> (Completed /\ Len(sent) = ScriptLen /\ matches = ScriptLen
                         /\ ops[Len(ops)] = "ws_close")

\* C20 witness: a run that went through the readiness wait completed.
C20_Witness ==
  /\ Completed
  /\ Len(sent) = ScriptLen
  /\ Count("status_get") = 3
  /\ Count("prime_get") = 1
  /\ shell_attached
====
